---- MODULE Spec2Model ----
(***************************************************************************)
(* State-machine model of src/loss_balancer.py: the LossBalancer object    *)
(* (cum_n_samp_per_cls, weights_norm), the module-level name `loss` that   *)
(* _update_weights reads at line 53, and the __call__ operation.           *)
(*                                                                         *)
(* loss_global is the binding of the name `loss` in the globals of the      *)
(* module that defines the class: unbound when the module is imported and  *)
(* while __main__ runs up to line 60, bound to a float tensor from line 60 *)
(* on.  call records the last call: its arguments, the state before it,    *)
(* the locals weights and weights / weights.mean() of _update_weights, its *)
(* outcome, the returned tensor and the caller's loss tensor afterwards.   *)
(* seen tallies, sample by sample, the labels of the training batches.     *)
(* Batches have at least one sample and as many losses as labels.          *)
(*                                                                         *)
(* Tensor elements are modelled as exact values: a finite value is a       *)
(* reduced fraction <<n, d>> with d > 0, NaN is <<0, 0>> and +Inf is       *)
(* <<1, 0>>.  Rounding of the float32 arithmetic is not modelled; the      *)
(* IEEE special cases 0/0 = NaN, x/0 = Inf, NaN > 0 = False and            *)
(* x * NaN = NaN are.                                                      *)
(***************************************************************************)
EXTENDS Integers, Sequences, FiniteSets, TLC

VARIABLES cum_n_samp_per_cls, weights_norm, loss_global, call, seen, n_calls

vars == <<cum_n_samp_per_cls, weights_norm, loss_global, call, seen, n_calls>>

----------------------------------------------------------------------------
(* Bounds of the model *)

MaxBatch == 3

MaxLoss == 1

MaxCalls == 2

(* n_classes of the __main__ scenario (line 57) *)
n_classes == 3

Classes == 0 .. (n_classes - 1)

(* Labels a batch may carry: the classes and one label outside the range *)
Labels == 0 .. n_classes

----------------------------------------------------------------------------
(* Element arithmetic *)

NaN == <<0, 0>>

Inf == <<1, 0>>

Abs(n) == IF n < 0 THEN -n ELSE n

RECURSIVE GCD(_, _)
GCD(a, b) == IF b = 0 THEN a ELSE GCD(b, a % b)

(* the finite value n/d, d > 0, reduced *)
Frac(n, d) ==
    LET g == GCD(Abs(n), d)
    IN  <<n \div g, d \div g>>

Num(n) == <<n, 1>>

IsNaN(x) == x = NaN

IsFinite(x) == x[2] # 0

(* x + y for non-negative operands *)
Add(x, y) ==
    IF IsNaN(x) \/ IsNaN(y) THEN NaN
    ELSE IF ~IsFinite(x) \/ ~IsFinite(y) THEN Inf
    ELSE Frac(x[1] * y[2] + y[1] * x[2], x[2] * y[2])

(* x * y for non-negative operands *)
Mul(x, y) ==
    IF IsNaN(x) \/ IsNaN(y) THEN NaN
    ELSE IF ~IsFinite(x) \/ ~IsFinite(y)
         THEN (IF x[1] = 0 \/ y[1] = 0 THEN NaN ELSE Inf)
    ELSE Frac(x[1] * y[1], x[2] * y[2])

(* x / y for non-negative operands *)
Div(x, y) ==
    IF IsNaN(x) \/ IsNaN(y) THEN NaN
    ELSE IF ~IsFinite(x) THEN (IF IsFinite(y) THEN Inf ELSE NaN)
    ELSE IF ~IsFinite(y) THEN Num(0)
    ELSE IF y[1] = 0 THEN (IF x[1] = 0 THEN NaN ELSE Inf)
    ELSE Frac(x[1] * y[2], x[2] * y[1])

(* x > 0; False for NaN *)
GtZero(x) == ~IsNaN(x) /\ x[1] > 0

RECURSIVE SumTo(_, _)
SumTo(s, n) == IF n = 0 THEN Num(0) ELSE Add(SumTo(s, n - 1), s[n])

(* tensor.sum() of a sequence of elements *)
TSum(s) == SumTo(s, Len(s))

(* tensor.mean(): NaN for an empty tensor *)
TMean(s) == Div(TSum(s), Num(Len(s)))

----------------------------------------------------------------------------
(* LossBalancer.__init__ *)

init_cum_n_samp_per_cls == [c \in Classes |-> 0]

init_weights_norm == [k \in 1 .. n_classes |-> Frac(1, n_classes)]

----------------------------------------------------------------------------
(* LossBalancer._update_n_sample_counter *)

RECURSIVE MaskSumTo(_, _, _)
MaskSumTo(Tb, i, n) ==
    IF n = 0 THEN 0
    ELSE MaskSumTo(Tb, i, n - 1) + (IF Tb[n] = i THEN 1 ELSE 0)

(* (Tb == i).sum() *)
MaskSum(Tb, i) == MaskSumTo(Tb, i, Len(Tb))

(* the loop body run for i = 0 .. upto-1 *)
RECURSIVE CounterLoop(_, _, _)
CounterLoop(cnt, Tb, upto) ==
    IF upto = 0 THEN cnt
    ELSE LET prev == CounterLoop(cnt, Tb, upto - 1)
             i    == upto - 1
         IN  [prev EXCEPT ![i] = prev[i] + MaskSum(Tb, i)]

(* variant: for i in range(len(self.cum_n_samp_per_cls) - 1) *)
update_n_sample_counter_short(cnt, Tb) ==
    CounterLoop(cnt, Tb, Cardinality(DOMAIN cnt) - 1)

update_n_sample_counter(cnt, Tb) ==
    CounterLoop(cnt, Tb, Cardinality(DOMAIN cnt))

----------------------------------------------------------------------------
(* LossBalancer._update_weights *)

RECURSIVE CntSumTo(_, _)
CntSumTo(cnt, upto) ==
    IF upto = 0 THEN 0 ELSE CntSumTo(cnt, upto - 1) + cnt[upto - 1]

(* 1. * cum_n_samp_per_cls / cum_n_samp_per_cls.sum() *)
probs_arr(cnt) ==
    LET total == Num(CntSumTo(cnt, Cardinality(DOMAIN cnt)))
    IN  [c \in DOMAIN cnt |-> Div(Mul(Num(1), Num(cnt[c])), total)]

(* probs_arr > 0 *)
non_zero_mask(probs) == [c \in DOMAIN probs |-> GtZero(probs[c])]

(* variant: probs_arr[non_zero_mask] without ** (-1) *)
recip_probs_arr_no_inverse(cnt) ==
    LET probs == probs_arr(cnt)
        mask  == non_zero_mask(probs)
    IN  [c \in DOMAIN cnt |-> IF mask[c] THEN probs[c] ELSE Num(0)]

(* zeros, then probs_arr ** (-1) where the mask is set *)
recip_probs_arr(cnt) ==
    LET probs == probs_arr(cnt)
        mask  == non_zero_mask(probs)
    IN  [c \in DOMAIN cnt |-> IF mask[c] THEN Div(Num(1), probs[c]) ELSE Num(0)]

(* weights[mask] += recip_probs_arr[i], for i = 0 .. upto-1 *)
RECURSIVE WeightsLoop(_, _, _, _)
WeightsLoop(weights, Tb, recip, upto) ==
    IF upto = 0 THEN weights
    ELSE LET prev == WeightsLoop(weights, Tb, recip, upto - 1)
             i    == upto - 1
         IN  [j \in 1 .. Len(Tb) |->
                 IF Tb[j] = i THEN Add(prev[j], recip[i]) ELSE prev[j]]

(* variant: for i in range(self.n_classes_int - 1) *)
raw_weights_short(cnt, Tb) ==
    WeightsLoop([j \in 1 .. Len(Tb) |-> Num(0)], Tb, recip_probs_arr(cnt),
                n_classes - 1)

(* weights after the loop over range(n_classes) *)
raw_weights(cnt, Tb) ==
    WeightsLoop([j \in 1 .. Len(Tb) |-> Num(0)], Tb, recip_probs_arr(cnt),
                n_classes)

(* variant: weights / weights.sum() *)
normalize_by_sum(weights) ==
    LET total == TSum(weights)
    IN  [j \in 1 .. Len(weights) |-> Div(weights[j], total)]

(* weights / weights.mean() *)
normalize(weights) ==
    LET mean == TMean(weights)
    IN  [j \in 1 .. Len(weights) |-> Div(weights[j], mean)]

(* .to(loss.dtype).to(loss.device): `loss` is not a parameter of              *)
(* _update_weights, so the name is looked up in the module globals after the  *)
(* quotient has been computed; an unbound name raises NameError before the    *)
(* assignment to self.weights_norm.  A bound float tensor leaves the values   *)
(* as they are.                                                               *)
(* variant: self.weights_norm assigned before `loss` is looked up *)
update_weights_assign_first(cnt, wn, Tb, g) ==
    LET weights == raw_weights(cnt, Tb)
        quot    == normalize(weights)
    IN  [weights      |-> weights,
         quot         |-> quot,
         raised       |-> (g = "unbound"),
         weights_norm |-> quot]

update_weights(cnt, wn, Tb, g) ==
    LET weights == raw_weights(cnt, Tb)
        quot    == normalize(weights)
    IN  [weights      |-> weights,
         quot         |-> quot,
         raised       |-> (g = "unbound"),
         weights_norm |-> IF g = "unbound" THEN wn ELSE quot]

----------------------------------------------------------------------------
(* LossBalancer.__call__ *)

(* variant: the counter update outside the `if train is True` *)
counts_after_always(cnt, Tb, train) == update_n_sample_counter(cnt, Tb)

(* if train is True: self._update_n_sample_counter(Tb) *)
counts_after(cnt, Tb, train) ==
    IF train THEN update_n_sample_counter(cnt, Tb) ELSE cnt

(* loss *= self.weights_norm *)
imul(loss, wn) == [j \in 1 .. Len(loss) |-> Mul(loss[j], wn[j])]

(* The whole call on a balancer in state (cnt, wn) with the module global   *)
(* `loss` in state g.  cnt_after and wn_after are the balancer's state      *)
(* afterwards, loss_after is the caller's loss tensor afterwards (loss *=   *)
(* is in place) and ret is the returned tensor, which is that same tensor.  *)
(* weights and quot are the locals of _update_weights.                      *)
apply(cnt, wn, g, loss, Tb, train) ==
    LET cnt1 == counts_after(cnt, Tb, train)
        uw   == update_weights(cnt1, wn, Tb, g)
        out  == imul(loss, uw.weights_norm)
    IN  [made |-> TRUE, Tb |-> Tb, train |-> train, loss_in |-> loss,
         cnt_before |-> cnt, wn_before |-> wn, g |-> g,
         outcome    |-> IF uw.raised THEN "NameError" ELSE "returned",
         cnt_after  |-> cnt1,
         wn_after   |-> uw.weights_norm,
         weights    |-> uw.weights,
         quot       |-> uw.quot,
         loss_after |-> IF uw.raised THEN loss ELSE out,
         ret        |-> IF uw.raised THEN <<>> ELSE out]

----------------------------------------------------------------------------
(* Inputs *)

SeqsOfLen(S, n) == [1 .. n -> S]

(* __main__ scenario, lines 59-61 *)
scenario_loss == [j \in 1 .. 6 |-> Num(1)]

scenario_targets == <<0, 0, 0, 1, 1, 2>>

(* per-sample losses of a batch of n samples: every sample the same value, *)
(* or the values 1, 2, .., n                                               *)
Losses(n) ==
    { [j \in 1 .. n |-> Num(l)] : l \in 0 .. MaxLoss }
    \cup { [j \in 1 .. n |-> Num(j)] }

(* (loss, Tb) pairs of equal length 1 .. MaxBatch, and the scenario's batch *)
Batches ==
    UNION { Losses(n) \X SeqsOfLen(Labels, n) : n \in 1 .. MaxBatch }
    \cup { <<scenario_loss, scenario_targets>> }

NoCall ==
    [made |-> FALSE, Tb |-> <<>>, train |-> FALSE, loss_in |-> <<>>,
     cnt_before |-> init_cum_n_samp_per_cls, wn_before |-> <<>>,
     g |-> "unbound", outcome |-> "none",
     cnt_after |-> init_cum_n_samp_per_cls, wn_after |-> init_weights_norm,
     weights |-> <<>>, quot |-> <<>>, loss_after |-> <<>>, ret |-> <<>>]

(* exact per-sample tally of the labels of the training batches *)
RECURSIVE Tally(_, _, _)
Tally(s, Tb, n) ==
    IF n = 0 THEN s
    ELSE LET prev == Tally(s, Tb, n - 1)
         IN  IF Tb[n] \in DOMAIN prev
             THEN [prev EXCEPT ![Tb[n]] = prev[Tb[n]] + 1]
             ELSE prev

----------------------------------------------------------------------------
(* The state machine *)

Init ==
    /\ cum_n_samp_per_cls = init_cum_n_samp_per_cls
    /\ weights_norm = init_weights_norm
    /\ loss_global = "unbound"
    /\ call = NoCall
    /\ seen = [c \in Classes |-> 0]
    /\ n_calls = 0

(* module-level assignment `loss = loss_orig.clone()`, line 60 *)
BindLoss ==
    /\ loss_global = "unbound"
    /\ loss_global' = "bound"
    /\ UNCHANGED <<cum_n_samp_per_cls, weights_norm, call, seen, n_calls>>

(* loss_balancer(loss, targets, train) *)
Call ==
    /\ n_calls < MaxCalls
    /\ \E b \in Batches, train \in BOOLEAN :
          /\ call' = apply(cum_n_samp_per_cls, weights_norm, loss_global,
                           b[1], b[2], train)
          /\ seen' = IF train THEN Tally(seen, b[2], Len(b[2])) ELSE seen
    /\ cum_n_samp_per_cls' = call'.cnt_after
    /\ weights_norm' = call'.wn_after
    /\ n_calls' = n_calls + 1
    /\ UNCHANGED loss_global

Next == BindLoss \/ Call

Spec == Init /\ [][Next]_vars

TypeOK ==
    /\ cum_n_samp_per_cls \in [Classes -> Nat]
    /\ loss_global \in {"unbound", "bound"}
    /\ n_calls \in 0 .. MaxCalls

----------------------------------------------------------------------------
(* Vocabulary of the properties *)

(* x > y for finite values *)
Gt(x, y) == IsFinite(x) /\ IsFinite(y) /\ x[1] * y[2] > y[1] * x[2]

Zeros == [c \in Classes |-> 0]

InRange(Tb) == \A j \in 1 .. Len(Tb) : Tb[j] \in Classes

AllEqual(cnt) == \A c, d \in Classes : cnt[c] = cnt[d]

Returned == call.made /\ call.outcome = "returned"

----------------------------------------------------------------------------
(* C1: after every call each entry of ClassCount equals the exact number   *)
(* of samples of that class in the training batches processed so far, and  *)
(* no entry is smaller than it was before the call.                        *)
C1_ExactMonotoneCounts ==
    /\ \A c \in Classes : cum_n_samp_per_cls[c] = seen[c]
    /\ call.made =>
          \A c \in Classes : cum_n_samp_per_cls[c] >= call.cnt_before[c]

(* a second training call that adds to counts left by an earlier one *)
C1_Witness ==
    /\ n_calls = 2
    /\ call.train
    /\ call.cnt_before # Zeros
    /\ \E c \in Classes :
          /\ call.cnt_before[c] > 0
          /\ cum_n_samp_per_cls[c] > call.cnt_before[c]
          /\ cum_n_samp_per_cls[c] = seen[c]

(* C2: a call with is_training = false leaves ClassCount as it was before  *)
(* the call.                                                               *)
C2_EvalKeepsCounts ==
    (call.made /\ ~call.train) => cum_n_samp_per_cls = call.cnt_before

(* an eval call on non-zero counts whose batch carries in-range labels *)
C2_Witness ==
    /\ call.made
    /\ ~call.train
    /\ call.cnt_before # Zeros
    /\ \E j \in 1 .. Len(call.Tb) : call.Tb[j] \in Classes
    /\ cum_n_samp_per_cls = call.cnt_before

(* C3 as stated: with 0 < ClassCount[c1] < ClassCount[c2] before the call, *)
(* a sample of c1 gets a strictly larger weight than a sample of c2 in the *)
(* call, training or eval (read for the calls that return).                *)
C3_Original ==
    Returned =>
      \A c1, c2 \in Classes :
        (0 < call.cnt_before[c1] /\ call.cnt_before[c1] < call.cnt_before[c2]) =>
          \A j1, j2 \in 1 .. Len(call.Tb) :
            (call.Tb[j1] = c1 /\ call.Tb[j2] = c2) =>
              Gt(weights_norm[j1], weights_norm[j2])

(* C3 amended: with 0 < ClassCount[c1] < ClassCount[c2] when the weights   *)
(* are computed (after the call's own counter update if it is a training   *)
(* call), the weight computed for a sample of c1 is strictly larger than   *)
(* the one computed for a sample of c2.                                    *)
C3_RareClassLargerWeight ==
    call.made =>
      \A c1, c2 \in Classes :
        (0 < call.cnt_after[c1] /\ call.cnt_after[c1] < call.cnt_after[c2]) =>
          \A j1, j2 \in 1 .. Len(call.Tb) :
            (call.Tb[j1] = c1 /\ call.Tb[j2] = c2) =>
              /\ Gt(call.quot[j1], call.quot[j2])
              /\ Gt(call.weights[j1], call.weights[j2])
              /\ Returned => Gt(weights_norm[j1], weights_norm[j2])

(* a training call whose own update reverses the order of two counts *)
C3_Witness ==
    /\ Returned
    /\ call.train
    /\ \E c1, c2 \in Classes :
          /\ 0 < call.cnt_after[c1]
          /\ call.cnt_after[c1] < call.cnt_after[c2]
          /\ 0 < call.cnt_before[c2]
          /\ call.cnt_before[c2] < call.cnt_before[c1]
          /\ \E j1, j2 \in 1 .. Len(call.Tb) :
                /\ call.Tb[j1] = c1
                /\ call.Tb[j2] = c2
                /\ Gt(weights_norm[j1], weights_norm[j2])

(* C4: when the mean of the per-sample raw weights is non-zero, the        *)
(* factors w[i] / mean(w) sum to the batch size (mean 1); a call that      *)
(* returns with unit losses returns a loss of the same mean; the scenario  *)
(* of __main__ gives the factors 2/3, 2/3, 2/3, 1, 1, 2.                   *)
C4_FactorsMeanOne ==
    (call.made /\ TMean(call.weights) # Num(0)) =>
      /\ TSum(call.quot) = Num(Len(call.Tb))
      /\ TMean(call.quot) = Num(1)
      /\ (call.outcome = "returned"
            /\ \A j \in 1 .. Len(call.loss_in) : call.loss_in[j] = Num(1)) =>
           TMean(call.ret) = TMean(call.loss_in)
      /\ (call.Tb = scenario_targets /\ call.train /\ call.cnt_before = Zeros) =>
           call.quot = <<Frac(2, 3), Frac(2, 3), Frac(2, 3), Num(1), Num(1), Num(2)>>

(* the __main__ scenario has run and returned *)
C4_Witness ==
    /\ Returned
    /\ call.Tb = scenario_targets
    /\ call.loss_in = scenario_loss
    /\ call.train
    /\ call.cnt_before = Zeros
    /\ cum_n_samp_per_cls = (0 :> 3 @@ 1 :> 2 @@ 2 :> 1)
    /\ call.weights = <<Num(2), Num(2), Num(2), Num(3), Num(3), Num(6)>>
    /\ call.ret = <<Frac(2, 3), Frac(2, 3), Frac(2, 3), Num(1), Num(1), Num(2)>>

(* C5: an eval call on a balancer that has counted nothing derives zero    *)
(* raw weights, divides by a zero mean and returns NaN for every sample,   *)
(* with ClassCount still all zero.                                         *)
C5_Original ==
    (call.made /\ ~call.train /\ call.cnt_before = Zeros) =>
      /\ \A j \in 1 .. Len(call.Tb) : call.weights[j] = Num(0)
      /\ call.outcome = "returned"
      /\ Len(call.ret) = Len(call.Tb)
      /\ \A j \in 1 .. Len(call.ret) : IsNaN(call.ret[j])
      /\ cum_n_samp_per_cls = Zeros

(* C6 as stated: if all entries of ClassCount are equal when the call is   *)
(* made, every factor is exactly 1 and the returned loss equals the input  *)
(* loss, whatever the loss, the labels and the flag (read for the calls    *)
(* that return).                                                           *)
C6_Original ==
    (Returned /\ AllEqual(call.cnt_before)) =>
      /\ \A j \in 1 .. Len(call.Tb) : weights_norm[j] = Num(1)
      /\ call.ret = call.loss_in

(* C6 amended: if all entries of ClassCount are equal and non-zero when    *)
(* the weights are computed (after the call's own counter update if it is  *)
(* a training call) and every label is in range, every factor             *)
(* w[i] / mean(w) is exactly 1, and a call that returns returns the input  *)
(* loss values.                                                            *)
C6_EqualCountsNoDistortion ==
    (call.made /\ AllEqual(call.cnt_after) /\ call.cnt_after # Zeros
       /\ InRange(call.Tb)) =>
      /\ \A j \in 1 .. Len(call.Tb) : call.quot[j] = Num(1)
      /\ Returned =>
            /\ \A j \in 1 .. Len(call.Tb) : weights_norm[j] = Num(1)
            /\ call.ret = call.loss_in

(* a returning call on equal non-zero counts with unequal losses and all   *)
(* classes in the batch                                                    *)
C6_Witness ==
    /\ Returned
    /\ AllEqual(call.cnt_after)
    /\ call.cnt_after # Zeros
    /\ InRange(call.Tb)
    /\ \A c \in Classes : \E j \in 1 .. Len(call.Tb) : call.Tb[j] = c
    /\ \E j, k \in 1 .. Len(call.loss_in) : call.loss_in[j] # call.loss_in[k]
    /\ call.ret = call.loss_in

(* C7: a call whose batch has a label outside [0, n_classes-1] fails with  *)
(* an error: it returns nothing, and the label is not absorbed into the    *)
(* counter update or the weight computation.  Stated for the calls made    *)
(* with the module global `loss` bound, where line 53 cannot raise.        *)
C7_Original ==
    (call.made /\ call.g = "bound" /\ ~InRange(call.Tb)) =>
      /\ call.outcome # "returned"
      /\ cum_n_samp_per_cls = call.cnt_before
      /\ weights_norm = call.wn_before

(* C8: the caller's loss sequence holds the same values after the call as  *)
(* before it.                                                              *)
C8_Original ==
    call.made => call.loss_after = call.loss_in

(* C9 as stated: the cached weight vector always has n_classes entries. *)
C9_Original ==
    Len(weights_norm) = n_classes

(* C9 amended: the cached weight vector has n_classes entries after        *)
(* construction; a call that returns leaves it with one entry per sample   *)
(* of its batch, and a call that raises leaves it as it was.               *)
C9_WeightVectorSize ==
    /\ ~call.made => Len(weights_norm) = n_classes
    /\ call.made =>
          IF call.outcome = "returned"
          THEN Len(weights_norm) = Len(call.Tb)
          ELSE weights_norm = call.wn_before

(* a returned call whose batch size differs from n_classes, after an       *)
(* earlier call of yet another size                                        *)
C9_Witness ==
    /\ Returned
    /\ Len(call.Tb) # n_classes
    /\ Len(call.wn_before) # Len(call.Tb)
    /\ Len(call.wn_before) # n_classes
    /\ Len(weights_norm) = Len(call.Tb)

(* C10: the outcome of a call is the same whatever the module global       *)
(* `loss` is bound to or not, and a call that raises leaves ClassCount     *)
(* unchanged.                                                              *)
C10_Original ==
    call.made =>
      /\ \A g \in {"unbound", "bound"} :
            LET other == apply(call.cnt_before, call.wn_before, g,
                               call.loss_in, call.Tb, call.train)
            IN  /\ other.outcome = call.outcome
                /\ other.ret = call.ret
                /\ other.cnt_after = call.cnt_after
                /\ other.wn_after = call.wn_after
      /\ call.outcome # "returned" => cum_n_samp_per_cls = call.cnt_before

====
